---- MODULE Spec2Model ----
(***************************************************************************)
(* Model of transfer/incrementor.go (MysteriumNetwork/payments): the gas   *)
(* price incrementor.  One Run loop polls the storage and starts one       *)
(* watcher goroutine per transaction; each watcher races a check ticker,   *)
(* an increase ticker, a timeout and the stop channel.                     *)
(*                                                                         *)
(* Time is abstracted to two facts per transaction: expired[uid] (the      *)
(* record's deadline from creation has passed, what tx.isExpired() reads)  *)
(* and the watcher's own `timeout` channel being ready (fired).  The check *)
(* and increase tickers may fire at any moment.  Storage, chain client and *)
(* signing functions are external: their results are drawn with \E.        *)
(***************************************************************************)
EXTENDS Integers, Sequences, FiniteSets, TLC

\* ------------------------------------------------------------- bounds
\* Watcher goroutines started in one run (caps the generation counter).
MaxWatches == 2
\* Longest sender queue the storage reports to CanQueue.
MaxQueueLen == 3
\* Largest MaxQueuePerSigner configured.
MaxCfgQueue == 2

\* -------------------------------------------------------- value sets
\* The transactions followed.  Transactions meet only in the watch-set and in
\* the storage, both keyed by UniqueID, so one id shows every interleaving of
\* the Run loop with the watchers of a transaction.
UIDs == {"u1"}
NoTx == [UniqueID |-> "-"]

\* common.Address values; "zero" is the all-zero address.
Addrs == {"zero", "A", "B"}

\* common.Address.Hex(): the canonical string of an address.
Hex(a) == CASE a = "zero" -> "0x00"
            [] a = "A"    -> "0xAA"
            [] a = "B"    -> "0xBB"

\* Strings handed to getSignerFunc: canonical forms, the empty string, a
\* short form of zero, a lower-case form of A, a string that is no hex.
LookupStrings == {"", "0x00", "0x0", "0xAA", "0xaa", "0xBB", "zz"}

\* common.HexToAddress: parses leniently, anything unparsable gives zero.
HexToAddress(s) == CASE s \in {"0xAA", "0xaa"} -> "A"
                     [] s = "0xBB"             -> "B"
                     [] OTHER                  -> "zero"

TxStatePending        == "Pending"
TxStatePriceIncreased == "PriceIncreased"
TxStateFailed         == "Failed"
TxStateSucceed        == "Succeeded"
Terminal == {TxStateFailed, TxStateSucceed}

\* ------------------------------------------------------ TransactionOpts
\* PriceMultiplier is the rational MulNum/MulDen; MaxPrice is a pointer:
\* << >> is nil, <<p>> holds p.
ValidOpts == [Timeout |-> 1, CheckInterval |-> 1, IncreaseInterval |-> 1,
              MulNum |-> 2, MulDen |-> 1, MaxPrice |-> <<100>>]
BadMultiplierOpts == [ValidOpts EXCEPT !.MulNum = 1]
BadIntervalOpts   == [ValidOpts EXCEPT !.CheckInterval = 0]
NilMaxPriceOpts   == [ValidOpts EXCEPT !.MaxPrice = << >>]
ZeroOpts == [Timeout |-> 0, CheckInterval |-> 0, IncreaseInterval |-> 0,
             MulNum |-> 0, MulDen |-> 1, MaxPrice |-> << >>]
OptsSet == {ValidOpts, BadMultiplierOpts, BadIntervalOpts, NilMaxPriceOpts}

\* TransactionOpts.validate: nil exactly for sane opts.
validate(o) ==
    IF o.Timeout > 0 /\ o.CheckInterval > 0 /\ o.IncreaseInterval > 0
       /\ o.MulNum > o.MulDen /\ o.MaxPrice # << >>
    THEN "nil" ELSE "invalid opts"

\* ------------------------------------------------- types.Transaction
\* An Ethereum transaction: payload (nonce, recipient, value), gas price and
\* who signed it.
RawTxs == {[payload |-> "p", gasPrice |-> 40, signedBy |-> "A"]}

\* types.Transaction.MarshalJSON: the encoded bytes.
MarshalJSON(t) == <<t.payload, t.gasPrice, t.signedBy>>

\* Transaction.getLatestTx: decodes LatestTx; the empty blob of a zero
\* Transaction{} does not decode.
getLatestTx(tx) ==
    IF Len(tx.LatestTx) = 3
    THEN [err |-> "nil",
          tx  |-> [payload |-> tx.LatestTx[1], gasPrice |-> tx.LatestTx[2],
                   signedBy |-> tx.LatestTx[3]]]
    ELSE [err |-> "malformed", tx |-> [payload |-> "", gasPrice |-> 0, signedBy |-> ""]]

\* The zero value Transaction{}.
EmptyTx == [UniqueID |-> "", ChainID |-> 0, SenderAddressHex |-> "",
            State |-> "", Opts |-> ZeroOpts, LatestTx |-> << >>]

\* newTransaction: the record InsertInitial persists; uid is the fresh id.
newTransaction(uid, raw, sender, opts) ==
    [UniqueID |-> uid, ChainID |-> 1, SenderAddressHex |-> Hex(sender),
     State |-> TxStatePending, Opts |-> opts, LatestTx |-> MarshalJSON(raw)]

\* Transaction.rebuiledWithNewGasPrice: same payload, new price, unsigned.
rebuiledWithNewGasPrice(org, newGasPrice) ==
    [payload |-> org.payload, gasPrice |-> newGasPrice, signedBy |-> ""]

\* ------------------------------------------------------------- errors
\* A Go error is its chain of wrapped errors, outermost first; << >> is nil.
\* A link has an identity (what errors.Is compares) and a message.
Nil == << >>
ErrNonceTooLow  == <<[id |-> "core.ErrNonceTooLow",  msg |-> "nonce too low"]>>
ErrNonceTooHigh == <<[id |-> "core.ErrNonceTooHigh", msg |-> "nonce too high"]>>
NotFound        == <<[id |-> "ethereum.NotFound",    msg |-> "not found"]>>
\* Errors of other packages: same text as a sentinel, or an RPC failure.
ForeignNonceTooLow == <<[id |-> "other", msg |-> "nonce too low"]>>
ForeignNotFound    == <<[id |-> "other", msg |-> "not found"]>>
RPCTimeout         == <<[id |-> "other", msg |-> "rpc timeout"]>>
StorageErr         == <<[id |-> "other", msg |-> "storage unavailable"]>>
MalformedErr       == <<[id |-> "other", msg |-> "unexpected end of JSON input"]>>
PriceLimitErr      == <<[id |-> "other", msg |-> "gas price limit reached"]>>
NoSignerErr        == <<[id |-> "other", msg |-> "can't retry, no signer"]>>
SignErr            == <<[id |-> "other", msg |-> "signing refused"]>>
ChainErrors == {ErrNonceTooLow, ErrNonceTooHigh, NotFound,
                ForeignNonceTooLow, ForeignNotFound, RPCTimeout}

\* fmt.Errorf("...: %w", err)
Wrap(err) == <<[id |-> "fmt", msg |-> "context"]>> \o err
\* errors.Is(err, target) for a sentinel target
ErrorsIs(err, target) == \E k \in 1..Len(err) : err[k].id = target[1].id
\* errors.Unwrap
Unwrap(err) == IF Len(err) > 1 THEN Tail(err) ELSE Nil
\* err.Error(): a wrapping error's text is "context: " followed by the inner text
ErrorText(err) == IF Len(err) = 1 THEN err[1].msg ELSE "context: ..."

\* isBlockchainErrorUnhandleable without the comparison with ethereum.NotFound.
isBlockchainErrorUnhandleable_NoNotFound(err) ==
    IF ErrorsIs(err, ErrNonceTooHigh) \/ ErrorsIs(err, ErrNonceTooLow)
    THEN TRUE
    ELSE LET unwrapped == Unwrap(err) IN
         IF unwrapped = Nil THEN FALSE
         ELSE ErrorText(unwrapped) \in {ErrorText(ErrNonceTooLow), ErrorText(ErrNonceTooHigh)}

isBlockchainErrorUnhandleable(err) ==
    IF ErrorsIs(err, ErrNonceTooHigh) \/ ErrorsIs(err, ErrNonceTooLow)
       \/ ErrorsIs(err, NotFound)
    THEN TRUE
    ELSE LET unwrapped == Unwrap(err) IN
         IF unwrapped = Nil THEN FALSE
         ELSE ErrorText(unwrapped) \in {ErrorText(ErrNonceTooLow), ErrorText(ErrNonceTooHigh)}

\* ------------------------------------------------------ signer registry
\* getSignerFunc without the single-signer fallback.
getSignerFunc_NoFallback(reg, senderAddressHex) ==
    LET addr == HexToAddress(senderAddressHex) IN
    IF addr \in reg THEN [signer |-> addr, ok |-> TRUE]
                    ELSE [signer |-> "", ok |-> FALSE]

\* getSignerFunc whose fallback does not look at the number of signers.
getSignerFunc_AnySize(reg, senderAddressHex) ==
    IF Cardinality(reg) >= 1
       /\ (senderAddressHex = "" \/ senderAddressHex = Hex(HexToAddress("")))
    THEN [signer |-> CHOOSE v \in reg : TRUE, ok |-> TRUE]
    ELSE LET addr == HexToAddress(senderAddressHex) IN
         IF addr \in reg THEN [signer |-> addr, ok |-> TRUE]
                         ELSE [signer |-> "", ok |-> FALSE]

\* safeSigners.getSignerFunc: a signing function is named by the address it
\* is registered under.
getSignerFunc(reg, senderAddressHex) ==
    IF Cardinality(reg) = 1
       /\ (senderAddressHex = "" \/ senderAddressHex = Hex(HexToAddress("")))
    THEN [signer |-> CHOOSE v \in reg : TRUE, ok |-> TRUE]
    ELSE LET addr == HexToAddress(senderAddressHex) IN
         IF addr \in reg THEN [signer |-> addr, ok |-> TRUE]
                         ELSE [signer |-> "", ok |-> FALSE]

\* safeSigners.getSigners
getSigners(reg) == {Hex(a) : a \in reg}

\* ------------------------------------------------- chain-client results
StatusPending   == "Pending"
StatusFailed    == "Failed"
StatusSucceeded == "Succeeded"

\* What TransactionByHash and TransactionReceipt answer on one check tick.
ChainOutcomes ==
    {[kind |-> "byHashErr", err |-> e, receipt |-> ""] : e \in ChainErrors}
    \cup {[kind |-> "pending", err |-> Nil, receipt |-> ""]}
    \cup {[kind |-> "receiptErr", err |-> e, receipt |-> ""] : e \in ChainErrors}
    \cup {[kind |-> "receipt", err |-> Nil, receipt |-> r] :
             r \in {"ReceiptStatusSuccessful", "ReceiptStatusFailed", "unknown"}}

bcTxStatusFromReceipt(receipt) ==
    CASE receipt = "ReceiptStatusSuccessful" -> StatusSucceeded
      [] receipt = "ReceiptStatusFailed"     -> StatusFailed
      [] OTHER                               -> StatusFailed

getTxStatus(tx, out) ==
    IF getLatestTx(tx).err # "nil"
    THEN [status |-> StatusFailed, err |-> Wrap(MalformedErr)]
    ELSE CASE out.kind = "byHashErr"  -> [status |-> StatusFailed, err |-> Wrap(out.err)]
           [] out.kind = "pending"    -> [status |-> StatusPending, err |-> Nil]
           [] out.kind = "receiptErr" -> [status |-> StatusFailed, err |-> Wrap(out.err)]
           [] OTHER -> [status |-> bcTxStatusFromReceipt(out.receipt), err |-> Nil]

\* -------------------------------------------------- persistence writes
\* One call of UpsertIncrementorTransaction: the record and whether the
\* storage accepted it.
Ups(tx, ok) == [tx |-> tx, ok |-> ok]
UpsertErr(ok, what) == IF ok THEN Nil ELSE Wrap(StorageErr)

\* transactionFailed / transactionSuccess: the upsert and the error returned.
transactionFailed(tx, ok) ==
    [ups |-> <<Ups([tx EXCEPT !.State = TxStateFailed], ok)>>,
     err |-> UpsertErr(ok, "failed")]
transactionSuccess(tx, ok) ==
    [ups |-> <<Ups([tx EXCEPT !.State = TxStateSucceed], ok)>>,
     err |-> UpsertErr(ok, "succeed")]

transactionPriceIncreased(tx, newTx, ok) ==
    LET upd == [tx EXCEPT !.State = TxStatePriceIncreased,
                          !.LatestTx = MarshalJSON(newTx)] IN
    [ups |-> <<Ups(upd, ok)>>,
     tx  |-> IF ok THEN upd ELSE EmptyTx,
     err |-> UpsertErr(ok, "increase")]

\* signAndSend that does not look at the result of SendTransaction.
signAndSend_IgnoresSendError(reg, t, senderAddrHex, sgn, snd) ==
    LET s == getSignerFunc(reg, senderAddrHex) IN
    IF ~s.ok THEN [tx |-> t, err |-> NoSignerErr]
    ELSE IF sgn # Nil THEN [tx |-> t, err |-> Wrap(sgn)]
    ELSE [tx |-> [t EXCEPT !.signedBy = s.signer], err |-> Nil]

\* signAndSend: sgn is the signing function's error, snd SendTransaction's.
signAndSend(reg, t, senderAddrHex, sgn, snd) ==
    LET s == getSignerFunc(reg, senderAddrHex) IN
    IF ~s.ok THEN [tx |-> t, err |-> NoSignerErr]
    ELSE IF sgn # Nil THEN [tx |-> t, err |-> Wrap(sgn)]
    ELSE IF snd # Nil THEN [tx |-> t, err |-> Wrap(snd)]
    ELSE [tx |-> [t EXCEPT !.signedBy = s.signer], err |-> Nil]

\* big.Float multiplication of the price by PriceMultiplier, truncated.
NewGasPrice(tx, org) == (org.gasPrice * tx.Opts.MulNum) \div tx.Opts.MulDen

increaseGasPrice(reg, tx, sgn, snd, ok) ==
    LET dec == getLatestTx(tx)
        org == dec.tx
        newGasPrice == NewGasPrice(tx, org) IN
    IF dec.err # "nil"
    THEN [tx |-> EmptyTx, err |-> MalformedErr, ups |-> << >>]
    ELSE IF newGasPrice > tx.Opts.MaxPrice[1]
    THEN LET f == transactionFailed(tx, ok) IN
         [tx |-> EmptyTx, err |-> IF f.err # Nil THEN f.err ELSE PriceLimitErr,
          ups |-> f.ups]
    ELSE LET sent == signAndSend(reg, rebuiledWithNewGasPrice(org, newGasPrice),
                                 tx.SenderAddressHex, sgn, snd) IN
         IF sent.err # Nil
         THEN LET f == transactionFailed(tx, ok) IN
              [tx |-> EmptyTx, err |-> f.err, ups |-> f.ups]
         ELSE LET p == transactionPriceIncreased(tx, sent.tx, ok) IN
              [tx |-> p.tx, err |-> p.err, ups |-> p.ups]

\* --------------------------------------------------------------- syncer
\* syncer.txBeingWatched with a lookup that never finds the id.
txBeingWatched_Never(txs, tx) == FALSE
txBeingWatched(txs, tx) == tx.UniqueID \in txs
txMarkBeingWatched(txs, tx) == txs \cup {tx.UniqueID}
txRemoveWatched(txs, tx) == txs \ {tx.UniqueID}

\* ================================================================ state
VARIABLES
    signers,    \* safeSigners.signers: the addresses holding a signing function
    cfg,        \* GasIncrementorConfig.MaxQueuePerSigner
    storage,    \* the Storage: UniqueID -> persisted Transaction (or NoTx)
    expired,    \* uid -> the record's Timeout since creation has elapsed
    stopped,    \* the stop channel is closed
    run,        \* the Run goroutine: pc, the fetched txs still to process, the
                \* tx tryWatch is about to mark
    watched,    \* syncer.txs: the UniqueIDs marked as being watched
    watchers,   \* the live watcher goroutines started by tryWatch
    nextGen,    \* number of watcher goroutines started so far
    evt         \* what the last step did: operation, inputs, result, upserts

vars == <<signers, cfg, storage, expired, stopped, run, watched, watchers, nextGen, evt>>

\* Storage keys: the ids of real transactions and the empty id of Transaction{}.
Keys == UIDs \cup {""}

NoEvt == [op |-> "none", by |-> 0, in |-> << >>, ret |-> << >>, ups |-> << >>]
Evt(op, by, in, ret, ups) == [op |-> op, by |-> by, in |-> in, ret |-> ret, ups |-> ups]

\* Records a storage may hold from before this process started: valid ones,
\* ones whose opts no longer validate, and one without a sender address.
LegacyTxs(uid) ==
    {newTransaction(uid, raw, "A", o) : raw \in RawTxs, o \in {ValidOpts, BadMultiplierOpts}}
    \cup {[newTransaction(uid, raw, "A", ValidOpts) EXCEPT !.SenderAddressHex = ""] :
             raw \in RawTxs}

\* The registries of the scheduler runs, and those of the API calls.
RunRegistries == {{"A"}, {"A", "B"}}

Init ==
    /\ signers \in RunRegistries
    /\ cfg \in 1..MaxCfgQueue
    /\ storage \in [Keys -> {NoTx}]
                   \cup UNION {{[k \in Keys |-> IF k = uid THEN t ELSE NoTx] :
                                    t \in LegacyTxs(uid)} : uid \in UIDs}
    /\ expired = [u \in UIDs |-> FALSE]
    /\ stopped = FALSE
    /\ run = [pc |-> "wait", queue |-> << >>, cur |-> NoTx]
    /\ watched = {}
    /\ watchers = {}
    /\ nextGen = 0
    /\ evt = NoEvt

\* The storage after the upserts of one step.
RECURSIVE ApplyUpserts(_, _)
ApplyUpserts(st, ups) ==
    IF ups = << >> THEN st
    ELSE ApplyUpserts(IF Head(ups).ok
                      THEN [st EXCEPT ![Head(ups).tx.UniqueID] = Head(ups).tx]
                      ELSE st,
                      Tail(ups))

\* ------------------------------------------------------------ public API
\* InsertInitial that also marks the new transaction as watched.
InsertInitial_MarksWatched(uid, raw, opts, sender, ok) ==
    /\ storage[uid] = NoTx
    /\ LET verr == validate(opts)
           newTx == newTransaction(uid, raw, sender, opts)
           ups == IF verr # "nil" THEN << >> ELSE <<Ups(newTx, ok)>>
           ret == IF verr # "nil" THEN "invalid opts given"
                  ELSE IF ok THEN "nil" ELSE "storage error" IN
       /\ storage' = ApplyUpserts(storage, ups)
       /\ watched' = IF ret = "nil" THEN txMarkBeingWatched(watched, newTx) ELSE watched
       /\ evt' = Evt("InsertInitial", 0, <<uid, raw, opts, sender>>, ret, ups)
    /\ UNCHANGED <<signers, cfg, expired, stopped, run, watchers, nextGen>>

\* InsertInitial(tx, opts, senderAddress); uid is the id newTransaction makes up.
InsertInitial(uid, raw, opts, sender, ok) ==
    /\ storage[uid] = NoTx
    /\ LET verr == validate(opts)
           newTx == newTransaction(uid, raw, sender, opts)
           ups == IF verr # "nil" THEN << >> ELSE <<Ups(newTx, ok)>>
           ret == IF verr # "nil" THEN "invalid opts given"
                  ELSE IF ok THEN "nil" ELSE "storage error" IN
       /\ storage' = ApplyUpserts(storage, ups)
       /\ evt' = Evt("InsertInitial", 0, <<uid, raw, opts, sender>>, ret, ups)
    /\ UNCHANGED <<signers, cfg, expired, stopped, run, watched, watchers, nextGen>>

\* Stop(): once.Do(close(stop)); later calls change nothing.
Stop ==
    /\ stopped' = TRUE
    /\ evt' = Evt("Stop", 0, << >>, "nil", << >>)
    /\ UNCHANGED <<signers, cfg, storage, expired, run, watched, watchers, nextGen>>

\* ------------------------------------------------------------------ time
\* The deadline of a stored record passes.
Expire(uid) ==
    /\ storage[uid] # NoTx
    /\ ~expired[uid]
    /\ expired' = [expired EXCEPT ![uid] = TRUE]
    /\ evt' = Evt("Expire", 0, <<uid>>, "nil", << >>)
    /\ UNCHANGED <<signers, cfg, storage, stopped, run, watched, watchers, nextGen>>

\* time.After(tx.Opts.Timeout) of a watcher becomes ready: Timeout after the
\* watcher started, hence after the record's own deadline.
TimerFire(w) ==
    /\ w \in watchers
    /\ ~w.fired
    /\ expired[w.orig.UniqueID]
    /\ watchers' = (watchers \ {w}) \cup {[w EXCEPT !.fired = TRUE]}
    /\ evt' = Evt("TimerFire", w.gen, << >>, "nil", << >>)
    /\ UNCHANGED <<signers, cfg, storage, expired, stopped, run, watched, nextGen>>

\* ------------------------------------------------------------- Run loop
\* The enumerations of a set as a sequence.
SeqsOf(S) == {f \in [1..Cardinality(S) -> S] : \A i, j \in 1..Cardinality(S) : f[i] = f[j] => i = j}

\* Run, case <-i.stop
RunStop ==
    /\ run.pc = "wait"
    /\ stopped
    /\ run' = [run EXCEPT !.pc = "returned"]
    /\ evt' = Evt("RunStop", 0, << >>, "nil", << >>)
    /\ UNCHANGED <<signers, cfg, storage, expired, stopped, watched, watchers, nextGen>>

\* The poll case of a Run that returns when the storage answers an error.
RunFetch_ReturnsOnError(ok, ids) ==
    /\ run.pc = "wait"
    /\ \A u \in ids : /\ storage[u] # NoTx
                      /\ storage[u].SenderAddressHex \in getSigners(signers) \cup {""}
    /\ \E q \in SeqsOf(ids) :
          run' = IF ok THEN [run EXCEPT !.pc = "process", !.queue = [k \in DOMAIN q |-> storage[q[k]]]]
                       ELSE [run EXCEPT !.pc = "returned"]
    /\ evt' = Evt("RunFetch", 0, <<ok>>, IF ok THEN "nil" ELSE "storage error", << >>)
    /\ UNCHANGED <<signers, cfg, storage, expired, stopped, watched, watchers, nextGen>>

\* Run, case <-time.After(PullInterval): GetIncrementorTransactionsToCheck
\* answers an error, or some of the stored records this instance can sign
\* (or that carry no sender address).  The select may take this case also
\* once stop is closed, when both channels are ready.
RunFetch(ok, ids) ==
    /\ run.pc = "wait"
    /\ \A u \in ids : /\ storage[u] # NoTx
                      /\ storage[u].SenderAddressHex \in getSigners(signers) \cup {""}
    /\ \E q \in SeqsOf(ids) :
          run' = IF ok THEN [run EXCEPT !.pc = "process", !.queue = [k \in DOMAIN q |-> storage[q[k]]]]
                       ELSE run
    /\ evt' = Evt("RunFetch", 0, <<ok>>, IF ok THEN "nil" ELSE "storage error", << >>)
    /\ UNCHANGED <<signers, cfg, storage, expired, stopped, watched, watchers, nextGen>>

\* tryWatch up to its go statement, without the validation of the opts.
tryWatch_NoValidate(txs, tx) ==
    IF txBeingWatched(txs, tx) THEN "already watching" ELSE "watch"
\* tryWatch up to its go statement: what it decides for tx.
tryWatch(txs, tx) ==
    IF txBeingWatched(txs, tx) THEN "already watching"
    ELSE IF validate(tx.Opts) # "nil" THEN "wrong tx opts"
    ELSE "watch"

\* process(txs): one iteration of the range loop, up to tryWatch's
\* txBeingWatched and validate; a tx that passes both is held in run.cur.
RunProcess ==
    /\ run.pc = "process"
    /\ IF run.queue = << >>
       THEN /\ run' = [run EXCEPT !.pc = "wait"]
            /\ evt' = Evt("RunProcess", 0, << >>, "end of txs", << >>)
       ELSE LET tx == Head(run.queue)
                decision == IF tx.State \in {TxStateFailed, TxStateSucceed}
                            THEN "finalized, skipped"
                            ELSE tryWatch(watched, tx) IN
            /\ run' = IF decision = "watch"
                      THEN [run EXCEPT !.pc = "mark", !.queue = Tail(run.queue), !.cur = tx]
                      ELSE [run EXCEPT !.queue = Tail(run.queue)]
            /\ evt' = Evt("RunProcess", 0, <<tx>>, decision, << >>)
    /\ UNCHANGED <<signers, cfg, storage, expired, stopped, watched, watchers, nextGen>>

\* tryWatch after the two checks: txMarkBeingWatched and the go statement.
RunMark ==
    /\ run.pc = "mark"
    /\ nextGen < MaxWatches
    /\ watched' = txMarkBeingWatched(watched, run.cur)
    /\ watchers' = watchers \cup {[gen |-> nextGen + 1, orig |-> run.cur, tx |-> run.cur,
                                   pc |-> "loop", fired |-> FALSE]}
    /\ nextGen' = nextGen + 1
    /\ run' = [run EXCEPT !.pc = "process", !.cur = NoTx]
    /\ evt' = Evt("RunMark", nextGen + 1, <<run.cur>>, "nil", << >>)
    /\ UNCHANGED <<signers, cfg, storage, expired, stopped>>

\* ------------------------------------------------------------- watcher
\* What one pass of the select loop leaves: the upserts issued, the loop's tx
\* and where the goroutine goes ("loop": next select; "errh": watchAndIncrement
\* returned an error to tryWatch; "exit": it returned nil).
Res(ups, tx, pc) == [ups |-> ups, tx |-> tx, pc |-> pc]
Returned(err) == IF err = Nil THEN "exit" ELSE "errh"

\* The check case marking the transaction failed on every error.
checkTick_FailsOnAnyError(tx, out, ok) ==
    LET r == getTxStatus(tx, out) IN
    IF r.err # Nil
    THEN LET f == transactionFailed(tx, ok) IN Res(f.ups, tx, Returned(f.err))
    ELSE IF r.status = StatusSucceeded
    THEN LET f == transactionSuccess(tx, ok) IN Res(f.ups, tx, Returned(f.err))
    ELSE Res(<< >>, tx, "loop")

\* The check case marking the transaction failed on a failed receipt.
checkTick_FailedStatusMarksFailed(tx, out, ok) ==
    LET r == getTxStatus(tx, out) IN
    IF r.err # Nil
    THEN IF ~isBlockchainErrorUnhandleable(r.err)
         THEN Res(<< >>, tx, "errh")
         ELSE LET f == transactionFailed(tx, ok) IN Res(f.ups, tx, Returned(f.err))
    ELSE IF r.status = StatusSucceeded
    THEN LET f == transactionSuccess(tx, ok) IN Res(f.ups, tx, Returned(f.err))
    ELSE IF r.status = StatusFailed
    THEN LET f == transactionFailed(tx, ok) IN Res(f.ups, tx, Returned(f.err))
    ELSE Res(<< >>, tx, "loop")

\* case <-checkTimer.C
checkTick(tx, out, ok) ==
    LET r == getTxStatus(tx, out) IN
    IF r.err # Nil
    THEN IF ~isBlockchainErrorUnhandleable(r.err)
         THEN Res(<< >>, tx, "errh")
         ELSE LET f == transactionFailed(tx, ok) IN Res(f.ups, tx, Returned(f.err))
    ELSE IF r.status = StatusSucceeded
    THEN LET f == transactionSuccess(tx, ok) IN Res(f.ups, tx, Returned(f.err))
    ELSE Res(<< >>, tx, "loop")

\* case <-incTimer.C
incTick(reg, tx, sgn, snd, ok) ==
    LET r == increaseGasPrice(reg, tx, sgn, snd, ok) IN
    IF r.err # Nil
    THEN IF ~isBlockchainErrorUnhandleable(r.err)
         THEN Res(r.ups, tx, "errh")
         ELSE LET f == transactionFailed(tx, ok) IN
              Res(r.ups \o f.ups, tx, Returned(f.err))
    ELSE Res(r.ups, r.tx, "loop")

\* case <-timeout
timeoutTick(tx, ok) ==
    LET f == transactionFailed(tx, ok) IN Res(f.ups, tx, Returned(f.err))

\* The error handler without the write of Failed for an expired tx.
errHandler_NoWrite(orig, isExpired, ok) == << >>

\* tryWatch's goroutine after watchAndIncrement returned an error: the
\* closure's tx is the one tryWatch was called with.
errHandler(orig, isExpired, ok) ==
    IF ~isExpired THEN << >> ELSE transactionFailed(orig, ok).ups

Step(w, op, in, res) ==
    /\ storage' = ApplyUpserts(storage, res.ups)
    /\ watchers' = (watchers \ {w}) \cup {[w EXCEPT !.tx = res.tx, !.pc = res.pc]}
    /\ evt' = Evt(op, w.gen, in, res.pc, res.ups)
    /\ UNCHANGED <<signers, cfg, expired, stopped, run, watched, nextGen>>

\* The stop case of a watcher that goes round the loop again.
WatcherStop_KeepsLooping(w) ==
    /\ w \in watchers /\ w.pc = "loop"
    /\ stopped
    /\ Step(w, "WatcherStop", << >>, Res(<< >>, w.tx, "loop"))

\* The stop case of a watcher that returns an error to tryWatch.
WatcherStop_ReturnsErr(w) ==
    /\ w \in watchers /\ w.pc = "loop"
    /\ stopped
    /\ Step(w, "WatcherStop", << >>, Res(<< >>, w.tx, "errh"))

\* watchAndIncrement, case <-i.stop
WatcherStop(w) ==
    /\ w \in watchers /\ w.pc = "loop"
    /\ stopped
    /\ Step(w, "WatcherStop", << >>, Res(<< >>, w.tx, "exit"))

CheckTick(w, out, ok) ==
    /\ w \in watchers /\ w.pc = "loop"
    /\ Step(w, "CheckTick", <<out>>, checkTick(w.tx, out, ok))

IncreaseTick(w, sgn, snd, ok) ==
    /\ w \in watchers /\ w.pc = "loop"
    /\ Step(w, "IncreaseTick", <<sgn, snd>>, incTick(signers, w.tx, sgn, snd, ok))

TimeoutTick(w, ok) ==
    /\ w \in watchers /\ w.pc = "loop"
    /\ w.fired
    /\ Step(w, "TimeoutTick", << >>, timeoutTick(w.tx, ok))

ErrHandler(w, ok) ==
    /\ w \in watchers /\ w.pc = "errh"
    /\ Step(w, "ErrHandler", <<expired[w.orig.UniqueID]>>,
            Res(errHandler(w.orig, expired[w.orig.UniqueID], ok), w.tx, "exit"))

\* A goroutine that ends without the deferred txRemoveWatched.
WatcherExit_KeepsMark(w) ==
    /\ w \in watchers /\ w.pc = "exit"
    /\ watchers' = watchers \ {w}
    /\ evt' = Evt("WatcherExit", w.gen, << >>, "nil", << >>)
    /\ UNCHANGED <<signers, cfg, storage, expired, stopped, run, watched, nextGen>>

\* defer i.syncer.txRemoveWatched(tx); the goroutine ends.
WatcherExit(w) ==
    /\ w \in watchers /\ w.pc = "exit"
    /\ watched' = txRemoveWatched(watched, w.orig)
    /\ watchers' = watchers \ {w}
    /\ evt' = Evt("WatcherExit", w.gen, << >>, "nil", << >>)
    /\ UNCHANGED <<signers, cfg, storage, expired, stopped, run, nextGen>>

\* ------------------------------------------------------- specification
SignOutcomes == {Nil, SignErr}
SendOutcomes == {Nil, ErrNonceTooLow, RPCTimeout}

Next ==
    \/ \E uid \in UIDs, raw \in RawTxs, o \in OptsSet, a \in {"A"}, ok \in BOOLEAN :
          InsertInitial(uid, raw, o, a, ok)
    \/ Stop
    \/ \E uid \in UIDs : Expire(uid)
    \/ \E w \in watchers : TimerFire(w)
    \/ RunStop
    \/ \E ok \in BOOLEAN, ids \in SUBSET UIDs : RunFetch(ok, ids)
    \/ RunProcess
    \/ RunMark
    \/ \E w \in watchers : WatcherStop(w)
    \/ \E w \in watchers, out \in ChainOutcomes, ok \in BOOLEAN : CheckTick(w, out, ok)
    \/ \E w \in watchers, sgn \in SignOutcomes, snd \in SendOutcomes, ok \in BOOLEAN :
          IncreaseTick(w, sgn, snd, ok)
    \/ \E w \in watchers, ok \in BOOLEAN : TimeoutTick(w, ok)
    \/ \E w \in watchers, ok \in BOOLEAN : ErrHandler(w, ok)
    \/ \E w \in watchers : WatcherExit(w)

Spec == Init /\ [][Next]_vars

\* ----------------------------------------------- API calls on their own
\* CanSign(sender)
CanSign(sender) ==
    /\ evt' = Evt("CanSign", 0, <<sender>>, getSignerFunc(signers, Hex(sender)).ok, << >>)
    /\ UNCHANGED <<signers, cfg, storage, expired, stopped, run, watched, watchers, nextGen>>

\* CanQueue comparing with <= .
CanQueue_LessOrEqual(sender, length, err) ==
    /\ evt' = Evt("CanQueue", 0, <<sender, length, err>>,
                  IF err # Nil THEN <<FALSE, err>> ELSE <<length <= cfg, Nil>>, << >>)
    /\ UNCHANGED <<signers, cfg, storage, expired, stopped, run, watched, watchers, nextGen>>

\* CanQueue(sender); length and err are what GetIncrementorSenderQueue answers.
CanQueue(sender, length, err) ==
    /\ evt' = Evt("CanQueue", 0, <<sender, length, err>>,
                  IF err # Nil THEN <<FALSE, err>> ELSE <<length < cfg, Nil>>, << >>)
    /\ UNCHANGED <<signers, cfg, storage, expired, stopped, run, watched, watchers, nextGen>>

\* A call of signers.getSignerFunc with any sender string (signAndSend passes
\* the record's SenderAddressHex).
ResolveSigner(senderAddressHex) ==
    /\ evt' = Evt("getSignerFunc", 0, <<senderAddressHex>>,
                  getSignerFunc(signers, senderAddressHex), << >>)
    /\ UNCHANGED <<signers, cfg, storage, expired, stopped, run, watched, watchers, nextGen>>

\* NewGasPriceIncremenetor with any registry and any MaxQueuePerSigner.
InitAPI ==
    /\ signers \in SUBSET Addrs
    /\ cfg \in 0..MaxCfgQueue
    /\ storage = [k \in Keys |-> NoTx]
    /\ expired = [u \in UIDs |-> FALSE]
    /\ stopped = FALSE
    /\ run = [pc |-> "wait", queue |-> << >>, cur |-> NoTx]
    /\ watched = {}
    /\ watchers = {}
    /\ nextGen = 0
    /\ evt = NoEvt

NextAPI ==
    \/ \E a \in Addrs : CanSign(a)
    \/ \E a \in Addrs, n \in 0..MaxQueueLen : CanQueue(a, n, Nil)
    \/ \E a \in Addrs : CanQueue(a, 0, StorageErr)
    \/ \E str \in LookupStrings : ResolveSigner(str)

SpecAPI == InitAPI /\ [][NextAPI]_vars

\* ------------------------------------------------- runs that keep going
\* The records a fetch returns when the storage works: every stored record
\* this instance can sign, or that carries no sender address.
Eligible == {u \in UIDs : storage[u] # NoTx
                          /\ storage[u].SenderAddressHex \in getSigners(signers) \cup {""}}

\* Runs in which Stop is never called and every upsert succeeds; a fetch may
\* still fail, and returns all eligible records when it does not.
NextLive ==
    \/ \E uid \in UIDs, raw \in RawTxs, o \in OptsSet, a \in {"A"} :
          InsertInitial(uid, raw, o, a, TRUE)
    \/ \E uid \in UIDs : Expire(uid)
    \/ \E w \in watchers : TimerFire(w)
    \/ \E ok \in BOOLEAN : RunFetch(ok, Eligible)
    \/ RunProcess
    \/ RunMark
    \/ \E w \in watchers, out \in ChainOutcomes : CheckTick(w, out, TRUE)
    \/ \E w \in watchers, sgn \in SignOutcomes, snd \in SendOutcomes :
          IncreaseTick(w, sgn, snd, TRUE)
    \/ \E w \in watchers : TimeoutTick(w, TRUE)
    \/ \E w \in watchers : ErrHandler(w, TRUE)
    \/ \E w \in watchers : WatcherExit(w)

\* The scheduling the Go runtime gives: the Run goroutine and every watcher
\* goroutine keep running, timers fire once their time has come, a select
\* whose timeout channel stays ready eventually takes that case, and a
\* working storage eventually answers a fetch.
Fairness ==
    /\ WF_vars(RunFetch(TRUE, Eligible))
    /\ WF_vars(RunProcess)
    /\ WF_vars(RunMark)
    /\ WF_vars(\E w \in watchers : TimerFire(w))
    /\ WF_vars(\E w \in watchers : TimeoutTick(w, TRUE))
    /\ WF_vars(\E w \in watchers : ErrHandler(w, TRUE))
    /\ WF_vars(\E w \in watchers : WatcherExit(w))

SpecLive == Init /\ [][NextLive]_vars /\ Fairness

\* The runs of SpecLive in which, besides, the check ticker of a watcher that
\* stays in its select loop eventually gets its case taken.
SpecRetry ==
    /\ Init /\ [][NextLive]_vars /\ Fairness
    /\ WF_vars(\E w \in watchers, out \in ChainOutcomes : CheckTick(w, out, TRUE))

\* ------------------------------------------------- runs that are stopped
\* Every step of Next; a fetch is taken only while the watchers it may start
\* fit into MaxWatches, so that no started tryWatch is cut off by the bound.
NextStop ==
    \/ \E uid \in UIDs, raw \in RawTxs, o \in OptsSet, a \in {"A"}, ok \in BOOLEAN :
          InsertInitial(uid, raw, o, a, ok)
    \/ Stop
    \/ \E uid \in UIDs : Expire(uid)
    \/ \E w \in watchers : TimerFire(w)
    \/ RunStop
    \/ \E ok \in BOOLEAN, ids \in SUBSET UIDs :
          /\ nextGen + Cardinality(ids) <= MaxWatches
          /\ RunFetch(ok, ids)
    \/ RunProcess
    \/ RunMark
    \/ \E w \in watchers : WatcherStop(w)
    \/ \E w \in watchers, out \in ChainOutcomes, ok \in BOOLEAN : CheckTick(w, out, ok)
    \/ \E w \in watchers, sgn \in SignOutcomes, snd \in SendOutcomes, ok \in BOOLEAN :
          IncreaseTick(w, sgn, snd, ok)
    \/ \E w \in watchers, ok \in BOOLEAN : TimeoutTick(w, ok)
    \/ \E w \in watchers, ok \in BOOLEAN : ErrHandler(w, ok)
    \/ \E w \in watchers : WatcherExit(w)

\* The scheduling under which calls return and goroutines keep running: the
\* Run goroutine goes through process and tryWatch, a watcher goroutine goes
\* through its error handler and its deferred call.  A select picks among its
\* ready cases at random: a watcher's select, to which the closed stop
\* channel is ready every time, eventually takes it, and so does Run's select
\* each time it comes back to it.  Nothing is assumed of the tickers, the
\* timeouts or the storage.
FairnessStop ==
    /\ SF_vars(RunStop)
    /\ WF_vars(RunProcess)
    /\ WF_vars(RunMark)
    /\ WF_vars(\E w \in watchers : WatcherStop(w))
    /\ WF_vars(\E w \in watchers, ok \in BOOLEAN : ErrHandler(w, ok))
    /\ WF_vars(\E w \in watchers : WatcherExit(w))

SpecStop == Init /\ [][NextStop]_vars /\ FairnessStop

\* =============================================================== claims
\* The upserts of the last step that were issued for uid.
UpsertsFor(e, uid) == {k \in 1..Len(e.ups) : e.ups[k].tx.UniqueID = uid}
Stored(uid) == storage[uid] # NoTx
\* The gas price of a record's LatestTx.
GasPriceOf(tx) == getLatestTx(tx).tx.gasPrice

\* C1: with one Run loop, no two live watcher goroutines ever hold the same
\* UniqueID, whatever the interleaving of poll steps, watcher steps and exits;
\* so the upserts of one UniqueID come from one watcher at a time.
C1_OneWatcherPerUniqueID ==
    \A w1, w2 \in watchers : w1.orig.UniqueID = w2.orig.UniqueID => w1 = w2

\* C1 witness: the poll loop skipped the transaction because its second
\* watcher (started after the first one exited) is live.
C1_Witness ==
    /\ evt.op = "RunProcess" /\ evt.ret = "already watching"
    /\ \E w \in watchers : w.gen = 2

\* C2: once Succeeded or Failed is persisted for a UniqueID, no step issues
\* another upsert for that UniqueID.
C2_NoUpsertAfterTerminal ==
    [][\A uid \in UIDs :
          (Stored(uid) /\ storage[uid].State \in Terminal) => UpsertsFor(evt', uid) = {}]_vars

\* C3: a persisted Succeeded stays Succeeded and a persisted Failed stays
\* Failed.
C3_TerminalStateIsStable ==
    [][\A uid \in UIDs :
          (Stored(uid) /\ storage[uid].State \in Terminal)
              => storage'[uid].State = storage[uid].State]_vars

\* C4: an InsertInitial with valid opts that returns nil issued exactly one
\* upsert, of a Pending record whose LatestTx decodes to the supplied
\* transaction and whose sender is the supplied address; the step leaves the
\* watch-set, the watchers and the Run loop as they were.
C4_InsertInitialPersistsPending ==
    [][(evt'.op = "InsertInitial" /\ validate(evt'.in[3]) = "nil")
         => /\ evt'.ret \in {"nil", "storage error"}
            /\ evt'.ret = "nil" =>
                 /\ Len(evt'.ups) = 1
                 /\ evt'.ups[1].ok
                 /\ evt'.ups[1].tx.State = TxStatePending
                 /\ getLatestTx(evt'.ups[1].tx).err = "nil"
                 /\ getLatestTx(evt'.ups[1].tx).tx = evt'.in[2]
                 /\ evt'.ups[1].tx.SenderAddressHex = Hex(evt'.in[4])
                 /\ evt'.ups[1].tx.Opts = evt'.in[3]
                 /\ storage'[evt'.in[1]] = evt'.ups[1].tx
                 /\ watched' = watched
                 /\ watchers' = watchers
                 /\ nextGen' = nextGen
                 /\ run' = run]_vars

\* C4 witness: InsertInitial returned nil and its Pending record is stored.
C4_Witness ==
    /\ evt.op = "InsertInitial" /\ evt.ret = "nil"
    /\ storage["u1"].State = TxStatePending
    /\ watchers = {} /\ watched = {}

\* C5: opts that do not validate mutate nothing.  InsertInitial returns the
\* error and issues no upsert; a poll iteration that meets a stored
\* non-terminal record with such opts issues no upsert, marks nothing and
\* holds no tx to start a watcher for, and no watcher ever runs on such opts.
C5_InvalidOptsMutateNothing ==
    [][/\ (evt'.op = "InsertInitial" /\ validate(evt'.in[3]) # "nil")
            => /\ evt'.ret = "invalid opts given"
               /\ evt'.ups = << >>
               /\ UNCHANGED <<signers, cfg, storage, expired, stopped, run,
                              watched, watchers, nextGen>>
       /\ (/\ evt'.op = "RunProcess" /\ evt'.in # << >>
           /\ evt'.in[1].State \notin Terminal
           /\ validate(evt'.in[1].Opts) # "nil")
            => /\ evt'.ups = << >>
               /\ run'.pc = "process" /\ run'.cur = NoTx
               /\ UNCHANGED <<signers, cfg, storage, expired, stopped,
                              watched, watchers, nextGen>>
       /\ \A w \in watchers' : validate(w.orig.Opts) = "nil"]_vars

\* C5 witness: the poll loop met a stored Pending record whose opts do not
\* validate and went on without watching it.
C5_Witness ==
    /\ evt.op = "RunProcess" /\ evt.ret = "wrong tx opts"
    /\ storage["u1"].State = TxStatePending
    /\ validate(storage["u1"].Opts) # "nil"
    /\ watchers = {} /\ watched = {}

\* C6: over the upserts of one UniqueID the gas price of the persisted
\* LatestTx never decreases and never exceeds Opts.MaxPrice.
C6_GasPriceMonotonicAndCapped ==
    [][\A uid \in UIDs :
          (Stored(uid) /\ storage'[uid] # storage[uid])
              => /\ GasPriceOf(storage'[uid]) >= GasPriceOf(storage[uid])
                 /\ GasPriceOf(storage'[uid]) <= storage'[uid].Opts.MaxPrice[1]]_vars

\* C8: CanQueue answers (false, nil) exactly when the storage reports a queue
\* of MaxQueuePerSigner or more, (true, nil) exactly when it reports less, and
\* false with the storage's error when the storage fails.
C8_CanQueue ==
    evt.op = "CanQueue" =>
        LET length == evt.in[2]
            err == evt.in[3] IN
        /\ (evt.ret = <<FALSE, Nil>>) <=> (err = Nil /\ length >= cfg)
        /\ (evt.ret = <<TRUE, Nil>>) <=> (err = Nil /\ length < cfg)
        /\ err # Nil => evt.ret = <<FALSE, err>>

\* C8 witness: the queue is exactly at the limit and CanQueue refused.
C8_Witness ==
    /\ evt.op = "CanQueue" /\ evt.in[3] = Nil
    /\ cfg > 0 /\ evt.in[2] = cfg
    /\ evt.ret = <<FALSE, Nil>>

\* C9 as stated: CanSign(a) is true if and only if a signing function is
\* registered under a.
C9_CanSignIffRegistered ==
    evt.op = "CanSign" => (evt.ret <=> evt.in[1] \in signers)

\* C9 amended: CanSign(a) is true if and only if a signing function is
\* registered under a, or a is the zero address and exactly one signing
\* function is registered (under whatever address).
C9_CanSignIffRegisteredOrFallback ==
    evt.op = "CanSign" =>
        (evt.ret <=> \/ evt.in[1] \in signers
                     \/ (evt.in[1] = "zero" /\ Cardinality(signers) = 1))

\* C9 witness: the zero address can be signed for although the only signer is
\* registered under another address.
C9_Witness ==
    /\ evt.op = "CanSign" /\ evt.in[1] = "zero"
    /\ signers = {"A"}
    /\ evt.ret = TRUE

\* C10: with exactly one signer, the empty string and the zero address resolve
\* to it; a non-empty string naming a non-zero unregistered address never
\* resolves; with two or more signers the empty string resolves only if the
\* zero address is registered.
C10_SignerResolution ==
    evt.op = "getSignerFunc" =>
        LET str == evt.in[1] IN
        /\ (Cardinality(signers) = 1 /\ str \in {"", Hex("zero")})
              => (evt.ret.ok /\ signers = {evt.ret.signer})
        /\ (str # "" /\ HexToAddress(str) # "zero" /\ HexToAddress(str) \notin signers)
              => ~evt.ret.ok
        /\ (Cardinality(signers) >= 2 /\ str = "" /\ evt.ret.ok)
              => ("zero" \in signers /\ evt.ret.signer = "zero")

\* C10 witness: the empty string resolved to the sole signer, registered under
\* a non-zero address.
C10_Witness ==
    /\ evt.op = "getSignerFunc" /\ evt.in[1] = ""
    /\ signers = {"B"}
    /\ evt.ret = [signer |-> "B", ok |-> TRUE]

\* The transaction's Timeout has elapsed while its persisted state is
\* Pending or PriceIncreased, its opts validate, fetches return it, and the
\* run can still watch it (a watcher is in its loop or error handler, or the
\* model's budget of watcher starts is not used up).
TimedOutWhileWatchable(uid) ==
    /\ Stored(uid) /\ expired[uid]
    /\ storage[uid].State \in {TxStatePending, TxStatePriceIncreased}
    /\ validate(storage[uid].Opts) = "nil"
    /\ uid \in Eligible
    /\ \/ nextGen < MaxWatches
       \/ \E w \in watchers : w.orig.UniqueID = uid /\ w.pc \in {"loop", "errh"}

Actor(e) == {w \in watchers : w.gen = e.by}
ActorAfter(e) == {w \in watchers' : w.gen = e.by}
\* The chain client was called on a check tick: the held LatestTx decoded.
ChainAsked(w) == getLatestTx(w.tx).err = "nil"
\* Errors of the chain client that say nonce too low, nonce too high (by
\* identity or by text) or not found (ethereum.NotFound).
FatalChainErrors == {ErrNonceTooLow, ErrNonceTooHigh, NotFound, ForeignNonceTooLow}

\* C11: a check tick on which TransactionByHash or TransactionReceipt answers
\* nonce too low, nonce too high or not found issues, in that same step, one
\* upsert of the watcher's transaction with state Failed (persisted when the
\* storage accepts it) and leaves the select loop, whether or not the
\* transaction's Timeout has elapsed.
C11_FatalChainErrorFailsAtOnce ==
    [][(/\ evt'.op = "CheckTick"
        /\ evt'.in[1].kind \in {"byHashErr", "receiptErr"}
        /\ evt'.in[1].err \in FatalChainErrors)
         => \A w \in Actor(evt') :
               ChainAsked(w) =>
                 /\ Len(evt'.ups) = 1
                 /\ evt'.ups[1].tx = [w.tx EXCEPT !.State = TxStateFailed]
                 /\ evt'.ups[1].tx.UniqueID = w.orig.UniqueID
                 /\ evt'.ups[1].ok => storage'[w.orig.UniqueID].State = TxStateFailed
                 /\ \A v \in ActorAfter(evt') : v.pc \in {"exit", "errh"}]_vars

\* C11 witness: the receipt query answered not found before the Timeout had
\* elapsed; Failed is persisted and the watcher has returned.
C11_Witness ==
    /\ evt.op = "CheckTick"
    /\ evt.in[1].kind = "receiptErr" /\ evt.in[1].err = NotFound
    /\ ~expired["u1"]
    /\ Len(evt.ups) = 1 /\ evt.ups[1].ok
    /\ storage["u1"].State = TxStateFailed
    /\ \E w \in watchers : w.gen = evt.by /\ w.pc = "exit"

\* Every goroutine of the incrementor has ended.
AllExited == run.pc = "returned" /\ watchers = {}

\* C12: Stop never fails; a Stop after the first changes nothing; the stop
\* signal is never taken back; and once Stop has been called the poll loop
\* and every watcher, running already or started afterwards, eventually have
\* exited, for good.
C12_StopIsIdempotentAndEndsAllLoops ==
    /\ [][evt'.op = "Stop"
            => /\ evt'.ret = "nil" /\ stopped'
               /\ UNCHANGED <<signers, cfg, storage, expired, run, watched,
                              watchers, nextGen>>
               /\ stopped => UNCHANGED stopped]_vars
    /\ [][stopped => stopped']_vars
    /\ stopped ~> [](AllExited)

\* C12 witness: Stop is called again after an earlier Stop made Run return
\* and the watchers that had been started exit.
C12_Witness ==
    /\ evt.op = "Stop" /\ stopped
    /\ AllExited
    /\ nextGen >= 1

\* C13: a watcher that takes the stop case issues no upsert, in that step or
\* on its way out: it returns nil, so tryWatch's error handler is skipped and
\* only the deferred unmark runs.  The storage is left exactly as it was, a
\* PriceIncreased record written before the stop included.
C13_StopExitPersistsNothing ==
    [][/\ evt'.op = "WatcherStop"
            => /\ evt'.ups = << >>
               /\ storage' = storage
               /\ \A v \in ActorAfter(evt') : v.pc = "exit"
       /\ \A w \in watchers :
             w.pc = "exit"
                => /\ \A v \in watchers' : v.gen = w.gen => v.pc = "exit"
                   /\ evt'.by = w.gen => (evt'.ups = << >> /\ storage' = storage)]_vars

\* C13 witness: a watcher that had raised the price to 80 and persisted
\* PriceIncreased took the stop case; the record is still there.
C13_Witness ==
    /\ evt.op = "WatcherStop"
    /\ \E w \in watchers : w.gen = evt.by /\ w.pc = "exit"
    /\ storage["u1"].State = TxStatePriceIncreased
    /\ GasPriceOf(storage["u1"]) = 80

\* The watcher goroutine numbered g is alive.
Alive(g) == \E w \in watchers : w.gen = g

\* C14: every UniqueID in the watch-set has a live watcher goroutine; a
\* goroutine that ends leaves its UniqueID out of the watch-set; every upsert
\* of a watcher is issued while its UniqueID is still marked (the unmark
\* comes last); and a watcher that has left its select loop, by whatever
\* return, eventually has ended and unmarked (a goroutine never goes back
\* into its loop, so eventually none is left outside of it).
C14_WatchSetNeverLeaks ==
    /\ [](\A u \in watched : \E w \in watchers : w.orig.UniqueID = u)
    /\ [][\A w \in watchers :
             ~Alive(w.gen)' => /\ w.pc = "exit"
                               /\ w.orig.UniqueID \notin watched']_vars
    /\ [][(evt'.by # 0 /\ evt'.ups # << >>)
            => \E w \in watchers : /\ w.gen = evt'.by
                                   /\ w.orig.UniqueID \in watched
                                   /\ w.orig.UniqueID \in watched']_vars
    /\ (\E w \in watchers : w.pc # "loop") ~> (\A w \in watchers : w.pc = "loop")

\* C14 witness: the second watcher of the transaction has ended after Failed
\* was persisted, and the watch-set is empty.
C14_Witness ==
    /\ evt.op = "WatcherExit" /\ evt.by = 2
    /\ watchers = {} /\ watched = {}
    /\ storage["u1"].State = TxStateFailed

\* Errors of the chain client that say none of the three: here an RPC timeout.
TransientChainErrors == {RPCTimeout}
\* On an increase tick of watcher w SendTransaction was called: the held
\* LatestTx decoded, the new price is within MaxPrice, a signer resolved and
\* signed.
SendAsked(w, sgn) ==
    /\ ChainAsked(w)
    /\ NewGasPrice(w.tx, getLatestTx(w.tx).tx) <= w.tx.Opts.MaxPrice[1]
    /\ getSignerFunc(signers, w.tx.SenderAddressHex).ok
    /\ sgn = Nil
\* The last step was a tick of watcher w on which the chain client answered
\* the error err.
ChainErrorOnTick(e, w, err) ==
    /\ e.by = w.gen
    /\ \/ /\ e.op = "CheckTick" /\ ChainAsked(w)
          /\ e.in[1].kind \in {"byHashErr", "receiptErr"} /\ e.in[1].err = err
       \/ /\ e.op = "IncreaseTick" /\ SendAsked(w, e.in[1])
          /\ e.in[2] = err

\* C15: a chain-client error on a check tick or an increase tick makes the
\* watcher issue an upsert of Failed when it says nonce too high, nonce too
\* low or not found; any other chain-client error, while the Timeout has not
\* elapsed, makes it issue no upsert and leaves the storage as it was.
C15_ErrorClassification ==
    [][\A w \in watchers :
          /\ \A err \in FatalChainErrors :
                ChainErrorOnTick(evt', w, err)
                   => \E k \in 1..Len(evt'.ups) : evt'.ups[k].tx.State = TxStateFailed
          /\ \A err \in TransientChainErrors :
                (ChainErrorOnTick(evt', w, err) /\ ~expired[w.orig.UniqueID])
                   => (evt'.ups = << >> /\ storage' = storage)]_vars

\* The upserts of a step that carry the state st.
UpsertsIn(e, st) == {k \in 1..Len(e.ups) : e.ups[k].tx.State = st}
\* Watcher w's increase tick got as far as signing: the held LatestTx
\* decoded and the new price is within MaxPrice.
SigningAsked(w) ==
    /\ ChainAsked(w)
    /\ NewGasPrice(w.tx, getLatestTx(w.tx).tx) <= w.tx.Opts.MaxPrice[1]

\* C16: an upsert of PriceIncreased is issued only by an increase tick on
\* which a signer resolved, signed and SendTransaction returned nil, and its
\* LatestTx is the encoding of that signed transaction (the old payload at
\* the new price); when no signer resolves, signing fails or the broadcast
\* fails, the tick issues no PriceIncreased upsert but one of Failed for the
\* watcher's transaction, persisted when the storage accepts it.
C16_PriceIncreasedOnlyAfterBroadcast ==
    [][/\ UpsertsIn(evt', TxStatePriceIncreased) # {} => evt'.op = "IncreaseTick"
       /\ \A w \in watchers :
            (evt'.op = "IncreaseTick" /\ evt'.by = w.gen) =>
               LET s == getSignerFunc(signers, w.tx.SenderAddressHex)
                   org == getLatestTx(w.tx).tx
                   sent == s.ok /\ evt'.in[1] = Nil /\ evt'.in[2] = Nil IN
               /\ \A k \in UpsertsIn(evt', TxStatePriceIncreased) :
                     /\ SigningAsked(w) /\ sent
                     /\ evt'.ups[k].tx.LatestTx
                           = <<org.payload, NewGasPrice(w.tx, org), s.signer>>
                     /\ evt'.ups[k].tx.UniqueID = w.orig.UniqueID
               /\ (SigningAsked(w) /\ ~sent)
                     => /\ UpsertsIn(evt', TxStatePriceIncreased) = {}
                        /\ Len(evt'.ups) = 1
                        /\ evt'.ups[1].tx = [w.tx EXCEPT !.State = TxStateFailed]
                        /\ evt'.ups[1].ok
                              => storage'[w.orig.UniqueID].State = TxStateFailed]_vars

\* C16 witness: signer A signed the rebuilt transaction at price 80, the
\* broadcast succeeded and the PriceIncreased record holding exactly that
\* transaction is stored.
C16_Witness ==
    /\ evt.op = "IncreaseTick" /\ evt.in = <<Nil, Nil>>
    /\ Len(evt.ups) = 1 /\ evt.ups[1].ok
    /\ evt.ups[1].tx.State = TxStatePriceIncreased
    /\ storage["u1"].SenderAddressHex = Hex("A")
    /\ storage["u1"].State = TxStatePriceIncreased
    /\ storage["u1"].LatestTx = <<"p", 80, "A">>

\* The last step was an increase tick that ended in failure with Failed
\* persisted: the storage accepted an upsert of Failed.
IncreaseFailedPersisted(e) ==
    /\ e.op = "IncreaseTick"
    /\ \E k \in UpsertsIn(e, TxStateFailed) : e.ups[k].ok

\* C17: an increase tick that persisted Failed (price above MaxPrice, signing
\* or broadcast failed) takes the watcher out of its select loop, and the
\* watcher's next step is no check, increase or timeout tick and issues no
\* upsert.
C17_FailedIncreaseEndsWatcher ==
    [][/\ IncreaseFailedPersisted(evt')
            => \A v \in ActorAfter(evt') : v.pc # "loop"
       /\ (IncreaseFailedPersisted(evt) /\ evt'.by = evt.by)
            => /\ evt'.op \notin {"CheckTick", "IncreaseTick", "TimeoutTick"}
               /\ evt'.ups = << >>]_vars

\* The last step was a check tick of watcher g on which the chain client was
\* asked for the status of uid.
CheckedBy(g, uid) ==
    /\ evt.op = "CheckTick" /\ evt.by = g
    /\ \E w \in watchers : w.gen = g /\ w.orig.UniqueID = uid /\ ChainAsked(w)
\* That check tick met a transient chain-client error before the Timeout of
\* uid had elapsed, and the run can still start a watcher.
TransientCheckError(g, uid) ==
    /\ CheckedBy(g, uid)
    /\ evt.in[1].kind \in {"byHashErr", "receiptErr"}
    /\ evt.in[1].err \in TransientChainErrors \cup {ForeignNotFound}
    /\ ~expired[uid]
    /\ nextGen < MaxWatches
\* A check tick met a transient error and issued no upsert.
TransientCheckLeavesStorage ==
    [][(/\ evt'.op = "CheckTick"
        /\ evt'.in[1].kind \in {"byHashErr", "receiptErr"}
        /\ evt'.in[1].err \in TransientChainErrors \cup {ForeignNotFound})
         => \A w \in Actor(evt') :
               ChainAsked(w) => /\ evt'.ups = << >> /\ storage' = storage
                                /\ \A v \in ActorAfter(evt') : v.pc = "errh"]_vars

\* The error handler of watcher g found the Timeout elapsed.
ExpiredWhileHandling(g) ==
    evt.op = "ErrHandler" /\ evt.by = g /\ evt.in[1] = TRUE

\* C18 as stated: a transient error on a check tick before the Timeout
\* leaves the storage as it was, and, unless the Timeout elapses while the
\* error is handled, the status of the transaction is eventually asked again,
\* by a watcher started on a later poll.
C18_TransientErrorIsRetried ==
    /\ TransientCheckLeavesStorage
    /\ \A uid \in UIDs : \A g \in 1..MaxWatches :
          TransientCheckError(g, uid)
             ~> \/ \E h \in 1..MaxWatches : h > g /\ CheckedBy(h, uid)
                \/ ExpiredWhileHandling(g)

\* C18 amended: ... the status is eventually asked again by a watcher started
\* on a later poll, unless the record becomes terminal first (the Timeout
\* elapses before the error handler or in the new watcher, or the new
\* watcher's increase tick fails).
C18_TransientErrorIsRetriedOrEnds ==
    /\ TransientCheckLeavesStorage
    /\ \A uid \in UIDs : \A g \in 1..MaxWatches :
          TransientCheckError(g, uid)
             ~> \/ \E h \in 1..MaxWatches : h > g /\ CheckedBy(h, uid)
                \/ Stored(uid) /\ storage[uid].State \in Terminal

\* C18 witness: the first watcher returned without writing (every upsert of
\* these runs succeeds, so only a transient check error leaves Pending
\* behind), and the second watcher, started by a later poll, asks the chain
\* for the status before the Timeout.
C18_Witness ==
    /\ CheckedBy(2, "u1")
    /\ storage["u1"].State = TxStatePending
    /\ ~expired["u1"]

\* C19: when tryWatch marks a UniqueID and starts its watcher, the persisted
\* state of that UniqueID is neither Succeeded nor Failed.
C19_TerminalNeverRequeued ==
    [][evt'.op = "RunMark"
         => LET uid == evt'.in[1].UniqueID IN
            Stored(uid) => storage[uid].State \notin Terminal]_vars

\* The steps taken by a watcher goroutine.
WatcherOps == {"TimerFire", "WatcherStop", "CheckTick", "IncreaseTick",
               "TimeoutTick", "ErrHandler", "WatcherExit"}

\* C20: a poll on which the fetch answers an error starts no watcher, marks
\* nothing, issues no upsert and leaves Run waiting for its next tick; Run
\* returns only through its stop case, after Stop was called; and no step of
\* a watcher, whatever its errors, changes where the Run goroutine is.
C20_PollLoopSurvivesErrors ==
    [][/\ (evt'.op = "RunFetch" /\ evt'.ret = "storage error")
            => /\ evt'.ups = << >>
               /\ run.pc = "wait" /\ run'.pc = "wait" /\ run'.queue = run.queue
               /\ UNCHANGED <<storage, watched, watchers, nextGen, stopped>>
       /\ (run'.pc = "returned" /\ run.pc # "returned")
            => (stopped /\ evt'.op = "RunStop")
       /\ run.pc = "returned" => run'.pc = "returned"
       /\ evt'.op \in WatcherOps => run' = run]_vars

\* C20 witness: the fetch failed while a Pending record was waiting to be
\* watched; Run, not stopped, is back at its select after a watcher of an
\* earlier cycle had ended in tryWatch's error handler.
C20_Witness ==
    /\ evt.op = "RunFetch" /\ evt.ret = "storage error"
    /\ ~stopped /\ run.pc = "wait"
    /\ nextGen = 1 /\ watchers = {}
    /\ storage["u1"].State = TxStatePending

\* C21: every upsert of a watcher carries the UniqueID, ChainID,
\* SenderAddressHex and Opts of the transaction the watcher was started for
\* and a state among Failed, Succeeded, PriceIncreased; none has an empty
\* UniqueID; and an upsert of Failed or Succeeded carries the LatestTx the
\* watcher holds, that of its most recent successful price increase.
C21_WatcherUpsertsKeepIdentity ==
    [][\A w \in Actor(evt') : \A k \in 1..Len(evt'.ups) :
          LET u == evt'.ups[k].tx IN
          /\ u.UniqueID # ""
          /\ u.UniqueID = w.orig.UniqueID
          /\ u.ChainID = w.orig.ChainID
          /\ u.SenderAddressHex = w.orig.SenderAddressHex
          /\ u.Opts = w.orig.Opts
          /\ u.State \in {TxStateFailed, TxStateSucceed, TxStatePriceIncreased}
          /\ (u.State \in Terminal /\ ChainAsked(w)) => u.LatestTx = w.tx.LatestTx]_vars

\* C22: a check tick on which the chain client answers without error issues
\* no upsert, keeps the watcher's transaction and keeps the watcher in its
\* select loop when the status is Pending or Failed (a failed or unrecognized
\* receipt); when the status is Succeeded it issues one upsert of Succeeded
\* for the watcher's transaction and leaves the loop.
C22_OnlySucceededEndsCheckTick ==
    [][\A w \in Actor(evt') :
          (evt'.op = "CheckTick" /\ ChainAsked(w)
           /\ evt'.in[1].kind \in {"pending", "receipt"})
            => IF evt'.in[1].kind = "receipt"
                  /\ evt'.in[1].receipt = "ReceiptStatusSuccessful"
               THEN /\ Len(evt'.ups) = 1
                    /\ evt'.ups[1].tx = [w.tx EXCEPT !.State = TxStateSucceed]
                    /\ evt'.ups[1].ok => storage'[w.orig.UniqueID].State = TxStateSucceed
                    /\ \A v \in ActorAfter(evt') : v.pc \in {"exit", "errh"}
               ELSE /\ evt'.ups = << >> /\ storage' = storage
                    /\ ActorAfter(evt') = {w}]_vars

\* C22 witness: the receipt carried an unrecognized status; the watcher that
\* had raised the price to 80 wrote nothing and is still in its loop.
C22_Witness ==
    /\ evt.op = "CheckTick" /\ evt.ups = << >>
    /\ evt.in[1].kind = "receipt" /\ evt.in[1].receipt = "unknown"
    /\ \E w \in watchers : w.gen = evt.by /\ w.pc = "loop" /\ GasPriceOf(w.tx) = 80
    /\ storage["u1"].State = TxStatePriceIncreased

====
